---- MODULE Spec2Model ----
(***************************************************************************)
(* Model of the mod/script discovery tools of anomaly_alao:                *)
(*   src/discovery.py               discover_mods, find_scripts            *)
(*   src/tools/script_extractor.py  find_script_files, extract_scripts     *)
(*   src/tools/split_test.py        get_mods, create_chunk_zip, main       *)
(*                                                                         *)
(* A path is a sequence of names.  A directory listing (iterdir, glob) is  *)
(* returned by the operating system in an order the code does not control; *)
(* the model draws that order nondeterministically.                        *)
(***************************************************************************)
EXTENDS Integers, Sequences, FiniteSets, TLC

VARIABLES
    scriptsDir,   \* SpecCollect: the node find_scripts is called on
    listRev,      \* order in which the OS returns glob results (FALSE ascending, TRUE descending)
    scripts,      \* SpecCollect: [called, value] - the list find_scripts returned
    tree,         \* the directory tree at root_path / mods_path
    found,        \* what discover_mods did: [status, mods]
    xpc,          \* extract_scripts: "idle", "copying" (in the copy loop) or "done" (returned)
    xscripts,     \* extract_scripts: the list find_script_files returned
    queue,        \* extract_scripts: the scripts the copy loop has not reached yet
    stats,        \* extract_scripts: the stats dict
    output,       \* extract_scripts: [made, copied] - output_path exists, relative paths written
    splitPc,      \* split_test main: "start", "chunks" (in the loop), "done" or "exit" (sys.exit)
    modsDir,      \* split_test: the entries of the mods directory, as the OS lists them
    args,         \* split_test: [exists, chunks, list] - the path exists, --chunks, --list
    splitMods,    \* split_test main: the list mods that get_mods returned
    chunkIdx,     \* split_test main: the loop variable i
    archives,     \* split_test: the zip files of the output directory, name -> content
    outputDirMade,\* split_test main: output_dir.mkdir was called
    exitCode      \* split_test main: the status of sys.exit, -1 while running

collectVars  == <<scriptsDir, scripts>>
discoverVars == <<tree, found>>
extractVars  == <<xpc, xscripts, queue, stats, output>>

splitVars    == <<splitPc, modsDir, args, splitMods, chunkIdx, archives, outputDirMade, exitCode>>

vars == <<scriptsDir, listRev, scripts, tree, found, xpc, xscripts, queue, stats, output,
          splitPc, modsDir, args, splitMods, chunkIdx, archives, outputDirMade, exitCode>>

(***************************************************************************)
(* Names and paths                                                         *)
(***************************************************************************)

\* Every name of the model, in ascending order of Python's str comparison
\* (code points: "(" < "." < digits < "_" < lower-case letters).
NameOrder ==
    << "(root)", ".git", "__pycache__", "a.lua", "b.script", "backup", "c.script",
       "gamedata", "lib", "m1", "m2", "n.bak", "n.txt", "opt", "scripts", "x.lua",
       "y.script" >>

NameRank(n) == CHOOSE i \in 1..Len(NameOrder) : NameOrder[i] = n

\* The text after the last "." of a name ("" when the match patterns below
\* cannot match it); fnmatch("*.lua") accepts exactly the names ending ".lua".
Suffix(n) ==
    CASE n \in {"a.lua", "x.lua"}                  -> "lua"
      [] n \in {"b.script", "c.script", "y.script"} -> "script"
      [] n \in {"n.bak"}                             -> "bak"
      [] n \in {"n.txt"}                             -> "txt"
      [] OTHER                                       -> ""

\* pathlib compares pure paths by their parts, part by part.
PathLt(p, q) ==
    \E k \in 1..(Len(p) + 1) :
        /\ k <= Len(q)
        /\ \A j \in 1..(k - 1) : p[j] = q[j]
        /\ \/ k = Len(p) + 1
           \/ k <= Len(p) /\ NameRank(p[k]) < NameRank(q[k])

Range(s) == { s[i] : i \in 1..Len(s) }

RECURSIVE Listing(_, _)
\* The paths of set S as the OS lists them: ascending, or descending when rev.
Listing(S, rev) ==
    IF S = {} THEN <<>>
    ELSE LET first == CHOOSE p \in S :
                         \A q \in S \ {p} : IF rev THEN PathLt(q, p) ELSE PathLt(p, q)
         IN  <<first>> \o Listing(S \ {first}, rev)

(***************************************************************************)
(* A scripts directory: kind "absent" (the path does not exist), "file"    *)
(* (the path exists and is not a directory) or "dir" with entries, each    *)
(* entry a relative path and the kind of what is there.                    *)
(***************************************************************************)

Entry(p, k) == [path |-> p, kind |-> k]

Absent  == [kind |-> "absent", entries |-> {}]
NotADir == [kind |-> "file",   entries |-> {}]
Dir(E)  == [kind |-> "dir",    entries |-> E]

\* Path.exists()
Exists(node) == node.kind # "absent"

\* Path.glob("*.<ext>") on the directory at path dir: the entries directly
\* in it whose name matches, whatever their kind.
Glob(dir, node, ext, rev) ==
    Listing({ dir \o e.path : e \in { x \in node.entries :
                                  Len(x.path) = 1 /\ Suffix(x.path[1]) = ext } }, rev)

\* Path.glob("**/*.<ext>") and Path.rglob("*.<ext>"): the entries at any
\* depth whose name matches, whatever their kind.
RGlob(dir, node, ext, rev) ==
    Listing({ dir \o e.path : e \in { x \in node.entries :
                                  Suffix(x.path[Len(x.path)]) = ext } }, rev)

RECURSIVE AppendNew(_, _)
\* for f in more: if f not in scripts: scripts.append(f)
AppendNew(acc, more) ==
    IF more = <<>> THEN acc
    ELSE AppendNew(IF Head(more) \in Range(acc) THEN acc ELSE Append(acc, Head(more)),
                   Tail(more))

RECURSIVE InsertSorted(_, _)
InsertSorted(s, p) ==
    IF s = <<>> THEN <<p>>
    ELSE IF PathLt(p, Head(s)) THEN <<p>> \o s
    ELSE <<Head(s)>> \o InsertSorted(Tail(s), p)

RECURSIVE Sorted(_)
\* sorted(list): every element kept, ascending
Sorted(s) == IF s = <<>> THEN <<>> ELSE InsertSorted(Sorted(Tail(s)), Head(s))

\* find_scripts(scripts_dir), scripts_dir being the node at path dir
find_scripts(dir, node, rev) ==
    LET top  == Glob(dir, node, "lua", rev) \o Glob(dir, node, "script", rev)
        deep == AppendNew(AppendNew(top, RGlob(dir, node, "lua", rev)),
                          RGlob(dir, node, "script", rev))
    IN  Sorted(deep)

(***************************************************************************)
(* The directory tree discover_mods and find_script_files walk.            *)
(*   tree.name      name of the root directory                             *)
(*   tree.top       the node at root/scripts                               *)
(*   tree.direct    the node at root/gamedata/scripts                      *)
(*   tree.inner     the node at root/gamedata/gamedata/scripts             *)
(*   tree.children  name -> item, the other entries of root                *)
(* An item of root: isDir, readable (listing it succeeds), scripts (the    *)
(* node at item/gamedata/scripts) and kids, name -> [isDir, scripts], its  *)
(* own entries with the node at kid/gamedata/scripts.  No scripts          *)
(* directory of the model holds a gamedata folder.                         *)
(***************************************************************************)

EmptyMap == [k \in {} |-> <<>>]

Item(d, r, s, k) == [isDir |-> d, readable |-> r, scripts |-> s, kids |-> k]
Kid(d, s) == [isDir |-> d, scripts |-> s]

\* root/gamedata exists exactly when something is below it
HasGamedata(t) == Exists(t.direct) \/ Exists(t.inner)

\* root_path.iterdir(): the names of the entries of root
ItemNames(t) == DOMAIN t.children \cup (IF HasGamedata(t) THEN {"gamedata"} ELSE {})

\* the entry of root called n; root/gamedata has the entry "scripts" when
\* root/gamedata/scripts exists
ItemOf(t, n) ==
    IF n = "gamedata"
    THEN Item(TRUE, TRUE, t.inner,
              IF Exists(t.direct)
              THEN ("scripts" :> Kid(t.direct.kind = "dir", Absent))
              ELSE EmptyMap)
    ELSE t.children[n]

RECURSIVE Perms(_)
\* every order in which the entries of a directory can be listed
Perms(S) ==
    IF S = {} THEN {<<>>}
    ELSE UNION { { <<x>> \o p : p \in Perms(S \ {x}) } : x \in S }

\* item.name.startswith('.')
StartsWithDot(n) == n \in {".git"}

\* item.name.startswith('.') or item.name in ('__pycache__', 'backup', 'backups')
Excluded(n) == StartsWithDot(n) \/ n \in {"__pycache__", "backup", "backups"}

Returned(m) == [status |-> "returned", mods |-> m]
Raised      == [status |-> "raised",   mods |-> EmptyMap]
NotRun      == [status |-> "none",     mods |-> EmptyMap]

\* the key f"{item.name}/{subitem.name}": neither name holds a "/", so the
\* pair of names stands for it; a plain name is a key of one name
Key(n) == <<n>>
NestedKey(n, k) == <<n, k>>

\* a registration that keeps the entry a key already has
Register_KeepFirst(mods, key, found_scripts) ==
    IF key \in DOMAIN mods THEN mods ELSE (key :> found_scripts) @@ mods

\* mods[key] = scripts
Register(mods, key, found_scripts) == (key :> found_scripts) @@ mods

\* scripts = find_scripts(dir); if scripts: mods[key] = scripts
RegisterIfScripts(mods, key, dir, node, rev) ==
    LET s == find_scripts(dir, node, rev)
    IN  IF s # <<>> THEN Register(mods, key, s) ELSE mods

RECURSIVE ScanKids(_, _, _, _, _, _)
\* for subitem in item.iterdir(): ... (discovery.py lines 54-61)
ScanKids(root, n, item, order, mods, rev) ==
    IF order = <<>> THEN mods
    ELSE LET k    == Head(order)[1]
             kid  == item.kids[k]
             next == IF kid.isDir /\ Exists(kid.scripts)
                     THEN RegisterIfScripts(mods, NestedKey(n, k),
                                            <<root, n, k, "gamedata", "scripts">>,
                                            kid.scripts, rev)
                     ELSE mods
         IN  ScanKids(root, n, item, Tail(order), next, rev)

\* one pass of the loop over root_path.iterdir() (discovery.py lines 39-61)
ScanItem(t, n, mods, rev) ==
    LET item == ItemOf(t, n)
    IN  IF ~item.isDir THEN Returned(mods)
        ELSE IF Excluded(n) THEN Returned(mods)
        ELSE IF Exists(item.scripts)
             THEN Returned(RegisterIfScripts(mods, Key(n),
                                             <<t.name, n, "gamedata", "scripts">>,
                                             item.scripts, rev))
        ELSE IF ~item.readable THEN Raised    \* item.iterdir() raises PermissionError
        ELSE Returned(ScanKids(t.name, n, item,
                               Listing({ <<k>> : k \in DOMAIN item.kids }, rev), mods, rev))

RECURSIVE ScanItems(_, _, _, _)
\* for item in root_path.iterdir(): ... ; a raised exception leaves the loop
ScanItems(t, order, mods, rev) ==
    IF order = <<>> THEN Returned(mods)
    ELSE LET r == ScanItem(t, Head(order), mods, rev)
         IN  IF r.status = "raised" THEN r
             ELSE ScanItems(t, Tail(order), r.mods, rev)

\* a discover_mods in which the first match wins: a root that holds scripts
\* of its own is returned as the only mod
discover_mods_FirstMatchWins(t, order, rev) ==
    IF t.name = "gamedata"
    THEN Returned(IF Exists(t.top)
                  THEN RegisterIfScripts(EmptyMap, Key("(root)"),
                                         <<t.name, "scripts">>, t.top, rev)
                  ELSE EmptyMap)
    ELSE LET own == IF Exists(t.direct)
                    THEN RegisterIfScripts(EmptyMap, Key(t.name),
                                           <<t.name, "gamedata", "scripts">>, t.direct, rev)
                    ELSE EmptyMap
         IN  IF own # EmptyMap THEN Returned(own) ELSE ScanItems(t, order, own, rev)

\* discover_mods(root_path), the entries of root listed in the given order
discover_mods(t, order, rev) ==
    IF t.name = "gamedata"
    THEN Returned(IF Exists(t.top)
                  THEN RegisterIfScripts(EmptyMap, Key("(root)"),
                                         <<t.name, "scripts">>, t.top, rev)
                  ELSE EmptyMap)
    ELSE LET own == IF Exists(t.direct)
                    THEN RegisterIfScripts(EmptyMap, Key(t.name),
                                           <<t.name, "gamedata", "scripts">>, t.direct, rev)
                    ELSE EmptyMap
         IN  ScanItems(t, order, own, rev)

(***************************************************************************)
(* The trees of the model                                                  *)
(***************************************************************************)

\* scripts directories: with scripts at two depths, with one script, with no
\* entry at all, and with nothing but a directory called x.lua
ScriptsA == Dir({ Entry(<<"a.lua">>, "file"), Entry(<<"n.txt">>, "file"),
                  Entry(<<"lib">>, "dir"), Entry(<<"lib", "c.script">>, "file") })
ScriptsB == Dir({ Entry(<<"b.script">>, "file") })
ScriptsNone == Dir({})
ScriptsDirOnly == Dir({ Entry(<<"x.lua">>, "dir") })

\* at most this many entries of root besides gamedata
MaxChildren == 2

ChildNames == {"m1", "m2", "backup", ".git"}

KidMaps ==
    { f \in UNION { [D -> { Kid(TRUE, Absent), Kid(TRUE, ScriptsNone), Kid(TRUE, ScriptsA),
                            Kid(TRUE, ScriptsB), Kid(TRUE, ScriptsDirOnly),
                            Kid(FALSE, Absent) }] :
                    D \in SUBSET {"opt", "lib"} } :
        "lib" \in DOMAIN f => f["lib"] = Kid(TRUE, ScriptsB) }

ItemChoices(n) ==
    IF Excluded(n)
    THEN { Item(TRUE, TRUE, ScriptsA, EmptyMap),
           Item(TRUE, TRUE, Absent, ("opt" :> Kid(TRUE, ScriptsA))) }
    ELSE   { Item(FALSE, TRUE, Absent, EmptyMap) }
      \cup { Item(TRUE, TRUE, s, EmptyMap) :
                s \in {NotADir, ScriptsNone, ScriptsA, ScriptsDirOnly} }
      \cup { Item(TRUE, FALSE, Absent, EmptyMap), Item(TRUE, FALSE, ScriptsB, EmptyMap) }
      \cup { Item(TRUE, TRUE, Absent, k) : k \in KidMaps \ {EmptyMap} }

ChildMaps ==
    UNION { { f \in [D -> UNION { ItemChoices(n) : n \in D }] :
                \A n \in D : f[n] \in ItemChoices(n) } :
            D \in { X \in SUBSET ChildNames : Cardinality(X) <= MaxChildren } }

Tree(n, t, d, i, c) == [name |-> n, top |-> t, direct |-> d, inner |-> i, children |-> c]

Roots ==
         { Tree("gamedata", t, di[1], di[2], EmptyMap) :
              t \in {Absent, ScriptsNone, ScriptsA, ScriptsDirOnly},
              di \in { <<Absent, Absent>>, <<ScriptsA, ScriptsB>> } }
    \cup { Tree(n, Absent, di[1], di[2], EmptyMap) :
              n \in {"m1", "backup"},
              di \in { <<Absent, Absent>>, <<ScriptsNone, Absent>>, <<ScriptsA, Absent>>,
                       <<ScriptsDirOnly, Absent>>, <<ScriptsA, ScriptsB>> } }

Trees == { [r EXCEPT !.children = c] : r \in Roots, c \in ChildMaps }

NoTree == Tree("m1", Absent, Absent, Absent, EmptyMap)

(***************************************************************************)
(* script_extractor.py                                                     *)
(***************************************************************************)

\* one element of the list of find_script_files: (mod_dir.name, script_file,
\* rel_path); isFile tells whether script_file is a regular file
Found(mod, src, isFile) == [mod |-> mod, src |-> src, rel |-> Tail(src), isFile |-> isFile]

KindAt(node, dir, p) ==
    (CHOOSE e \in node.entries : dir \o e.path = p).kind

\* a search that does not descend: scripts_dir.glob("*.script")
FoundIn_TopLevelOnly(t, n, rev) ==
    LET dir  == <<t.name, n, "gamedata", "scripts">>
        node == ItemOf(t, n).scripts
        l    == Glob(dir, node, "script", rev)
    IN  [i \in 1..Len(l) |-> Found(n, l[i], KindAt(node, dir, l[i]) = "file")]

\* for script_file in scripts_dir.rglob("*.script"): scripts.append(...)
FoundIn(t, n, rev) ==
    LET dir  == <<t.name, n, "gamedata", "scripts">>
        node == ItemOf(t, n).scripts
        l    == RGlob(dir, node, "script", rev)
    IN  [i \in 1..Len(l) |-> Found(n, l[i], KindAt(node, dir, l[i]) = "file")]

RECURSIVE find_script_files(_, _, _)
\* find_script_files(mods_path), the entries of mods_path listed in the given order
find_script_files(t, order, rev) ==
    IF order = <<>> THEN <<>>
    ELSE LET n    == Head(order)
             item == ItemOf(t, n)
             here == IF ~item.isDir THEN <<>>
                     ELSE IF ~Exists(item.scripts) THEN <<>>
                     ELSE FoundIn(t, n, rev)
         IN  here \o find_script_files(t, Tail(order), rev)

\* src_path.stat().st_size, a size for every file name of the model
SizeOf(p) ==
    CASE p[Len(p)] = "a.lua"    -> 3
      [] p[Len(p)] = "b.script" -> 5
      [] p[Len(p)] = "c.script" -> 7
      [] p[Len(p)] = "y.script" -> 2
      [] OTHER                  -> 1

NoStats == [mods |-> {}, files |-> 0, total_size |-> 0, errors |-> <<>>]
NoOutput == [made |-> FALSE, copied |-> {}]

ExtractIdle ==
    /\ xpc = "idle"
    /\ xscripts = <<>>
    /\ queue = <<>>
    /\ stats = NoStats
    /\ output = NoOutput

\* extract_scripts up to the copy loop (script_extractor.py lines 45-60)
ExtractStart ==
    /\ xpc = "idle"
    /\ found.status # "none"
    /\ \E order \in Perms(ItemNames(tree)) :
          LET l == find_script_files(tree, order, listRev)
          IN  /\ xscripts' = l
              /\ queue' = l
              /\ IF l = <<>>
                 THEN xpc' = "done" /\ output' = output
                 ELSE xpc' = "copying" /\ output' = [output EXCEPT !.made = TRUE]
    /\ stats' = NoStats
    /\ UNCHANGED <<listRev, collectVars, discoverVars, splitVars>>

\* the loop leaves with return stats once every script was reached
AfterCopy(rest) == IF rest = <<>> THEN "done" ELSE "copying"

\* one pass of the copy loop in which mkdir and copy2 succeed (lines 64-75);
\* copy2 reads a regular file only, and the stat of a file that was just
\* copied succeeds
CopyOk ==
    /\ xpc = "copying"
    /\ queue # <<>>
    /\ Head(queue).isFile
    /\ LET f == Head(queue)
       IN  /\ output' = [output EXCEPT !.copied = @ \cup {f.rel}]
           /\ stats' = [stats EXCEPT !.mods = @ \cup {f.mod},
                                     !.files = @ + 1,
                                     !.total_size = @ + SizeOf(f.src)]
    /\ queue' = Tail(queue)
    /\ xpc' = AfterCopy(Tail(queue))
    /\ UNCHANGED <<listRev, collectVars, discoverVars, splitVars, xscripts>>

\* a copy loop that gives up at the first failure
CopyFail_Stops ==
    /\ xpc = "copying"
    /\ queue # <<>>
    /\ LET f == Head(queue)
           msg == IF f.isFile THEN "PermissionError" ELSE "IsADirectoryError"
       IN  stats' = [stats EXCEPT !.errors = Append(@, <<f.rel, msg>>)]
    /\ xpc' = "done"
    /\ UNCHANGED <<listRev, collectVars, discoverVars, splitVars, xscripts, output, queue>>

\* one pass of the copy loop in which mkdir or copy2 raises (lines 80-81);
\* copy2 of a directory always raises
CopyFail ==
    /\ xpc = "copying"
    /\ queue # <<>>
    /\ LET f == Head(queue)
           msg == IF f.isFile THEN "PermissionError" ELSE "IsADirectoryError"
       IN  stats' = [stats EXCEPT !.errors = Append(@, <<f.rel, msg>>)]
    /\ queue' = Tail(queue)
    /\ xpc' = AfterCopy(Tail(queue))
    /\ UNCHANGED <<listRev, collectVars, discoverVars, splitVars, xscripts, output>>


(***************************************************************************)
(* split_test.py                                                           *)
(* An entry of the mods directory: its name (names are numbered in their   *)
(* ascending order), whether it is a directory, whether gamedata/scripts   *)
(* exists in it, and the numbers of *.script and *.bak files directly in   *)
(* that folder.                                                            *)
(***************************************************************************)

ModDir(n, d, s, sc, bk) ==
    [name |-> n, isDir |-> d, hasScripts |-> s, scriptCount |-> sc, bakCount |-> bk]

\* sorted(mods_path.iterdir()): the entries of a directory have distinct
\* names, so the i-th of the result is the entry with i-1 names below its own
SortedByName(l) ==
    LET below == [j \in 1..Len(l) |->
                    Cardinality({ k \in 1..Len(l) : l[k].name < l[j].name })]
        at    == [i \in 1..Len(l) |-> CHOOSE j \in 1..Len(l) : below[j] = i - 1]
    IN  [i \in 1..Len(l) |-> l[at[i]]]

\* the test of get_mods (split_test.py lines 19-25)
IsMod(item) == item.isDir /\ item.hasScripts /\ item.scriptCount > 0

\* get_mods(mods_path); an element stands for (item, script_count)
get_mods(dir) == SelectSeq(SortedByName(dir), IsMod)

RECURSIVE Digits(_)
\* the decimal digits of k >= 0
Digits(k) == IF k < 10 THEN <<k>> ELSE Digits(k \div 10) \o <<k % 10>>

\* f"{chunk_num:02d}": the digits, padded with zeros on the left to two
Format02d(k) == IF Len(Digits(k)) < 2 THEN <<0>> \o Digits(k) ELSE Digits(k)

RECURSIVE CountMembers(_)
\* the files create_chunk_zip writes for its mods: the *.script and the *.bak
CountMembers(l) ==
    IF l = <<>> THEN 0
    ELSE Head(l).scriptCount + Head(l).bakCount + CountMembers(Tail(l))

\* create_chunk_zip(mods, chunk_num, output_dir): the archive it leaves;
\* the digits of the number stand for the name mods_chunk_<digits>.zip
create_chunk_zip(chunk_mods, chunk_num) ==
    [name    |-> Format02d(chunk_num),
     mods    |-> [i \in 1..Len(chunk_mods) |-> chunk_mods[i].name],
     members |-> CountMembers(chunk_mods)]

\* a count of chunks that rounds down
NumChunks_Floor(n, c) == n \div c

\* ceil(len(mods) / chunk_size)
NumChunks(n, c) == IF n % c = 0 THEN n \div c ELSE n \div c + 1

Min(a, b) == IF a < b THEN a ELSE b

SplitIdle ==
    /\ splitPc = "start"
    /\ modsDir = <<>>
    /\ args = [exists |-> TRUE, chunks |-> 50, list |-> FALSE]
    /\ splitMods = <<>>
    /\ chunkIdx = 0
    /\ archives = EmptyMap
    /\ outputDirMade = FALSE
    /\ exitCode = -1

\* a main that makes the output directory before it looks at --list
Scan_MkdirBeforeList ==
    /\ splitPc = "start"
    /\ IF ~args.exists
       THEN /\ splitPc' = "exit" /\ exitCode' = 1
            /\ UNCHANGED <<splitMods, outputDirMade>>
       ELSE /\ splitMods' = get_mods(modsDir)
            /\ IF splitMods' = <<>>
               THEN splitPc' = "exit" /\ exitCode' = 1 /\ UNCHANGED outputDirMade
               ELSE /\ outputDirMade' = TRUE
                    /\ IF args.list
                       THEN splitPc' = "exit" /\ exitCode' = 0
                       ELSE splitPc' = "chunks" /\ exitCode' = exitCode
    /\ chunkIdx' = 0
    /\ UNCHANGED <<listRev, collectVars, discoverVars, extractVars, modsDir, args, archives>>

\* main from the check of the path to the creation of the output directory
\* (split_test.py lines 90-119)
Scan ==
    /\ splitPc = "start"
    /\ IF ~args.exists
       THEN /\ splitPc' = "exit" /\ exitCode' = 1
            /\ UNCHANGED <<splitMods, outputDirMade>>
       ELSE /\ splitMods' = get_mods(modsDir)
            /\ IF splitMods' = <<>>
               THEN splitPc' = "exit" /\ exitCode' = 1 /\ UNCHANGED outputDirMade
               ELSE IF args.list
               THEN splitPc' = "exit" /\ exitCode' = 0 /\ UNCHANGED outputDirMade
               ELSE splitPc' = "chunks" /\ exitCode' = exitCode /\ outputDirMade' = TRUE
    /\ chunkIdx' = 0
    /\ UNCHANGED <<listRev, collectVars, discoverVars, extractVars, modsDir, args, archives>>

\* one pass of the loop over range(num_chunks) (split_test.py lines 122-138);
\* ZipFile(zip_path, 'w') replaces a file of that name
WriteChunk ==
    /\ splitPc = "chunks"
    /\ chunkIdx < NumChunks(Len(splitMods), args.chunks)
    /\ LET start_idx == chunkIdx * args.chunks
           end_idx   == Min((chunkIdx + 1) * args.chunks, Len(splitMods))
           zip       == create_chunk_zip(SubSeq(splitMods, start_idx + 1, end_idx), chunkIdx + 1)
       IN  archives' = (zip.name :> [mods |-> zip.mods, members |-> zip.members])
                          @@ archives
    /\ chunkIdx' = chunkIdx + 1
    /\ UNCHANGED <<listRev, collectVars, discoverVars, extractVars,
                   splitPc, modsDir, args, splitMods, outputDirMade, exitCode>>

\* the loop is over and main returns (split_test.py line 140)
Finish ==
    /\ splitPc = "chunks"
    /\ chunkIdx >= NumChunks(Len(splitMods), args.chunks)
    /\ splitPc' = "done"
    /\ exitCode' = 0
    /\ UNCHANGED <<listRev, collectVars, discoverVars, extractVars,
                   modsDir, args, splitMods, chunkIdx, archives, outputDirMade>>

(***************************************************************************)
(* Spec: discover_mods on every tree of the model                          *)
(***************************************************************************)

NotCalled == [called |-> FALSE, value |-> <<>>]

Init ==
    /\ tree \in Trees
    /\ listRev \in BOOLEAN
    /\ found = NotRun
    /\ scriptsDir = Absent
    /\ scripts = NotCalled
    /\ ExtractIdle
    /\ SplitIdle

Discover ==
    /\ found.status = "none"
    /\ \E order \in Perms(ItemNames(tree)) :
          found' = discover_mods(tree, order, listRev)
    /\ UNCHANGED <<tree, listRev, collectVars, extractVars, splitVars>>

Next == Discover

Spec == Init /\ [][Next]_vars

(***************************************************************************)
(* SpecExtract: discover_mods, then extract_scripts, on one mods directory *)
(***************************************************************************)

ScriptsMixed == Dir({ Entry(<<"b.script">>, "file"), Entry(<<"c.script">>, "dir"),
                      Entry(<<"c.script", "y.script">>, "file") })

ExtractItemChoices(n) ==
    IF Excluded(n)
    THEN { Item(TRUE, TRUE, ScriptsB, EmptyMap) }
    ELSE { Item(FALSE, TRUE, Absent, EmptyMap),
           Item(TRUE, TRUE, ScriptsA, EmptyMap),
           Item(TRUE, TRUE, ScriptsMixed, EmptyMap),
           Item(TRUE, TRUE, Absent, ("opt" :> Kid(TRUE, ScriptsB))) }

ExtractTrees ==
    { Tree("m1", Absent, d, Absent, c) :
        d \in {Absent, ScriptsA},
        c \in UNION { { f \in [D -> UNION { ExtractItemChoices(n) : n \in D }] :
                          \A n \in D : f[n] \in ExtractItemChoices(n) } :
                      D \in SUBSET {"m1", "m2", "backup"} } }

InitExtract ==
    /\ tree \in ExtractTrees
    /\ listRev \in BOOLEAN
    /\ found = NotRun
    /\ scriptsDir = Absent
    /\ scripts = NotCalled
    /\ ExtractIdle
    /\ SplitIdle

NextExtract == Discover \/ ExtractStart \/ CopyOk \/ CopyFail

SpecExtract == InitExtract /\ [][NextExtract]_vars

(***************************************************************************)
(* SpecSplit: main of split_test.py on mods directories of up to MaxItems  *)
(* entries                                                                 *)
(***************************************************************************)

\* the sizes of the mods directory: every size up to MaxSmallDir, and the
\* sizes at which the count of archives reaches three digits and at which
\* the default chunk size gives three archives
MaxSmallDir == 12
MaxItems == 120
DirSizes == 0..MaxSmallDir \cup {100, MaxItems}

\* the values of --chunks of the model (50 is the default)
ChunkSizes == {1, 2, 7, 50, 125}

\* the entry with the i-th name: in "mods" every entry is a mod, in "mixed"
\* one in three is (the others are a file and a folder without *.script),
\* in "none" no entry has gamedata/scripts
EntryAt(layout, i) ==
    CASE layout = "mods"  -> ModDir(i, TRUE, TRUE, 1 + (i % 2), IF i % 3 = 0 THEN 1 ELSE 0)
      [] layout = "mixed" -> IF i % 3 = 1 THEN ModDir(i, TRUE, TRUE, 2, 0)
                             ELSE IF i % 3 = 2 THEN ModDir(i, TRUE, TRUE, 0, 1)
                             ELSE ModDir(i, FALSE, FALSE, 0, 0)
      [] OTHER            -> ModDir(i, TRUE, FALSE, 0, 0)

\* the n entries as the OS lists them
ListedDir(layout, n, rev) ==
    [i \in 1..n |-> EntryAt(layout, IF rev THEN n + 1 - i ELSE i)]

InitSplit ==
    /\ listRev \in BOOLEAN
    /\ \E n \in DirSizes, layout \in {"mods", "mixed", "none"} :
          modsDir = ListedDir(layout, n, listRev)
    /\ args \in [exists : BOOLEAN, chunks : ChunkSizes, list : BOOLEAN]
    /\ ~args.exists => modsDir = <<>>
    /\ splitPc = "start"
    /\ splitMods = <<>>
    /\ chunkIdx = 0
    /\ archives = EmptyMap
    /\ outputDirMade = FALSE
    /\ exitCode = -1
    /\ tree = NoTree
    /\ found = NotRun
    /\ scriptsDir = Absent
    /\ scripts = NotCalled
    /\ ExtractIdle

NextSplit == Scan \/ WriteChunk \/ Finish

SpecSplit == InitSplit /\ [][NextSplit]_vars

(***************************************************************************)
(* SpecCollect: find_scripts on every scripts directory of a bounded       *)
(* universe of entries.                                                    *)
(***************************************************************************)

TopFiles == { Entry(<<"a.lua">>, "file"), Entry(<<"b.script">>, "file"),
              Entry(<<"n.txt">>, "file") }
LibFiles == { Entry(<<"lib", "a.lua">>, "file"), Entry(<<"lib", "c.script">>, "file") }
LibDir   == Entry(<<"lib">>, "dir")
LuaDir   == Entry(<<"x.lua">>, "dir")
LuaDirFiles == { Entry(<<"x.lua", "y.script">>, "file") }

\* every set of entries in which the parent of each entry is present as a directory
AllContents ==
    { T \cup L \cup X :
        T \in SUBSET TopFiles,
        L \in {{}} \cup { {LibDir} \cup F : F \in SUBSET LibFiles },
        X \in {{}} \cup { {LuaDir} \cup F : F \in SUBSET LuaDirFiles } }

\* the path find_scripts is called with
CollectPath == <<"gamedata", "scripts">>

InitCollect ==
    /\ scriptsDir \in { Dir(E) : E \in AllContents } \cup {NotADir}
    /\ listRev \in BOOLEAN
    /\ scripts = NotCalled
    /\ tree = NoTree
    /\ found = NotRun
    /\ ExtractIdle
    /\ SplitIdle

Collect ==
    /\ ~scripts.called
    /\ scripts' = [called |-> TRUE, value |-> find_scripts(CollectPath, scriptsDir, listRev)]
    /\ UNCHANGED <<scriptsDir, listRev, discoverVars, extractVars, splitVars>>

NextCollect == Collect

SpecCollect == InitCollect /\ [][NextCollect]_vars

\* the regular files under the directory whose name ends in .lua or .script
ScriptFilesOf(dir, node) ==
    { dir \o e.path : e \in { x \in node.entries :
                          x.kind = "file" /\ Suffix(x.path[Len(x.path)]) \in {"lua", "script"} } }

NoDuplicates(s) == \A i, j \in 1..Len(s) : i # j => s[i] # s[j]
Ascending(s)    == \A i \in 1..(Len(s) - 1) : PathLt(s[i], s[i + 1])

\* C1: find_scripts returns a list with no path twice, sorted ascending, that
\* holds exactly the regular files under scripts_dir (any depth) named *.lua
\* or *.script.
C1_FindScriptsExact ==
    scripts.called =>
        /\ NoDuplicates(scripts.value)
        /\ Ascending(scripts.value)
        /\ Range(scripts.value) = ScriptFilesOf(CollectPath, scriptsDir)


(***************************************************************************)
(* Claims about discover_mods (Spec)                                       *)
(***************************************************************************)

\* the regular files named *.lua or *.script below a scripts node
HasScriptFile(dir, node) == ScriptFilesOf(dir, node) # {}

ChildScriptsPath(t, n) == <<t.name, n, "gamedata", "scripts">>
NestedScriptsPath(t, n, k) == <<t.name, n, k, "gamedata", "scripts">>
DirectScriptsPath(t) == <<t.name, "gamedata", "scripts">>

\* the directory whose scripts a key of the result stands for holds a script file
AllScriptFiles(t) ==
    ScriptFilesOf(<<t.name, "scripts">>, t.top)
    \cup ScriptFilesOf(DirectScriptsPath(t), t.direct)
    \cup UNION { ScriptFilesOf(ChildScriptsPath(t, n), ItemOf(t, n).scripts) :
                    n \in ItemNames(t) }
    \cup UNION { UNION { ScriptFilesOf(NestedScriptsPath(t, n, k), ItemOf(t, n).kids[k].scripts) :
                            k \in DOMAIN ItemOf(t, n).kids } : n \in ItemNames(t) }

\* C2: every key of the returned mapping maps to a non-empty list, and no
\* directory whose gamedata/scripts holds no .lua/.script file is registered:
\* each registered list names at least one script file of the tree.
C2_NoEmptyModRegistered ==
    found.status = "returned" =>
        \A key \in DOMAIN found.mods :
            /\ found.mods[key] # <<>>
            /\ Range(found.mods[key]) \cap AllScriptFiles(tree) # {}

\* a mod folder one level below a folder of root that has no scripts path
NestedMod(t, n, k) ==
    /\ n \in ItemNames(t)
    /\ ItemOf(t, n).isDir
    /\ ~Excluded(n)
    /\ ~Exists(ItemOf(t, n).scripts)
    /\ k \in DOMAIN ItemOf(t, n).kids
    /\ ItemOf(t, n).kids[k].isDir

AllNames == Range(NameOrder)

\* C3: for a root not named gamedata the result holds the key <folder>/<child>
\* exactly when folder is a non-excluded subdirectory of root without a
\* gamedata/scripts path and child is a subdirectory of folder whose
\* gamedata/scripts holds a script file; the key maps to child's scripts.
C3_NestedKeyExactly ==
    (found.status = "returned" /\ tree.name # "gamedata") =>
        \A n \in AllNames, k \in AllNames :
            /\ NestedKey(n, k) \in DOMAIN found.mods
                 <=> /\ NestedMod(tree, n, k)
                     /\ HasScriptFile(NestedScriptsPath(tree, n, k),
                                      ItemOf(tree, n).kids[k].scripts)
            /\ NestedKey(n, k) \in DOMAIN found.mods
                 => found.mods[NestedKey(n, k)]
                      = find_scripts(NestedScriptsPath(tree, n, k),
                                     ItemOf(tree, n).kids[k].scripts, FALSE)

\* what the scan of root's subdirectories (step 3) registers for a key
ScanKeys(t) ==
    { Key(n) : n \in { x \in ItemNames(t) :
                          /\ ItemOf(t, x).isDir /\ ~Excluded(x)
                          /\ Exists(ItemOf(t, x).scripts)
                          /\ find_scripts(ChildScriptsPath(t, x), ItemOf(t, x).scripts, FALSE) # <<>> } }
    \cup { NestedKey(nk[1], nk[2]) : nk \in { x \in AllNames \X AllNames :
                          /\ NestedMod(t, x[1], x[2])
                          /\ find_scripts(NestedScriptsPath(t, x[1], x[2]),
                                          ItemOf(t, x[1]).kids[x[2]].scripts, FALSE) # <<>> } }

ScanValue(t, key) ==
    IF Len(key) = 1
    THEN find_scripts(ChildScriptsPath(t, key[1]), ItemOf(t, key[1]).scripts, FALSE)
    ELSE find_scripts(NestedScriptsPath(t, key[1], key[2]),
                      ItemOf(t, key[1]).kids[key[2]].scripts, FALSE)

ScanIncluded ==
    \A key \in ScanKeys(tree) :
        key \in DOMAIN found.mods /\ found.mods[key] = ScanValue(tree, key)

\* C4 as stated: the entries of the scan of root's subdirectories are in the
\* result whether or not root matched step 1 (named gamedata) or step 2.
C4_ScanAlwaysCumulative ==
    found.status = "returned" => ScanIncluded

\* C4 amended: when discover_mods returns for a root not named gamedata, the
\* entries of the scan are in the result whether or not root matched step 2;
\* for a root named gamedata nothing but "(root)" is ever registered.
C4_ScanCumulativeUnlessGamedata ==
    found.status = "returned" =>
        IF tree.name = "gamedata"
        THEN DOMAIN found.mods \subseteq {Key("(root)")}
        ELSE ScanIncluded

\* root matched step 2 and the scan added another mod
C4_Witness ==
    /\ found.status = "returned"
    /\ tree.name # "gamedata"
    /\ Key(tree.name) \in DOMAIN found.mods
    /\ found.mods[Key(tree.name)] = find_scripts(DirectScriptsPath(tree), tree.direct, FALSE)
    /\ \E key \in ScanKeys(tree) : key # Key(tree.name) /\ key \in DOMAIN found.mods

\* C5: an unreadable subdirectory of root is skipped: discover_mods returns
\* a mapping, and it holds every mod of the other subdirectories.
C5_UnreadableSubdirSkipped ==
    found.status # "none" =>
        /\ found.status = "returned"
        /\ tree.name # "gamedata" =>
              \A key \in { x \in ScanKeys(tree) : ItemOf(tree, x[1]).readable } :
                  key \in DOMAIN found.mods

\* root holds scripts of its own and a subdirectory carrying root's name does too
Collision(t) ==
    /\ HasScriptFile(DirectScriptsPath(t), t.direct)
    /\ t.name \in ItemNames(t)
    /\ ItemOf(t, t.name).isDir
    /\ HasScriptFile(ChildScriptsPath(t, t.name), ItemOf(t, t.name).scripts)

\* the entries of root in ascending order, the order of reference
AscendingOrder(t) ==
    LET l == Listing({ <<n>> : n \in ItemNames(t) }, FALSE)
    IN  [i \in 1..Len(l) |-> l[i][1]]

\* the subdirectory's scripts are under root's name, and the mapping is the
\* one the run of reference returns
LastWriteWins ==
    /\ Key(tree.name) \in DOMAIN found.mods
    /\ found.mods[Key(tree.name)]
         = find_scripts(ChildScriptsPath(tree, tree.name),
                        ItemOf(tree, tree.name).scripts, FALSE)
    /\ found = discover_mods(tree, AscendingOrder(tree), FALSE)

\* C10 as stated: under a collision of root's name with a subdirectory's,
\* whatever the order of enumeration, the key holds the subdirectory's
\* scripts and the mapping is the same.
C10_CollisionLastWriteWins ==
    (found.status = "returned" /\ Collision(tree)) => LastWriteWins

\* C10 amended: the same, for a root whose name is neither gamedata nor one of
\* the names the scan skips (a leading ".", __pycache__, backup, backups).
C10_CollisionLastWriteWinsScanned ==
    (found.status = "returned" /\ Collision(tree)
        /\ tree.name # "gamedata" /\ ~Excluded(tree.name)) => LastWriteWins

C10_Witness ==
    /\ found.status = "returned"
    /\ Collision(tree)
    /\ tree.name # "gamedata" /\ ~Excluded(tree.name)
    /\ Cardinality(ItemNames(tree)) >= 2
    /\ found.mods[Key(tree.name)]
         # find_scripts(DirectScriptsPath(tree), tree.direct, listRev)

(***************************************************************************)
(* Claims about extract_scripts (SpecExtract)                              *)
(***************************************************************************)

\* the scripts the copy loop has been through
Reached == SubSeq(xscripts, 1, Len(xscripts) - Len(queue))

ErrorsFor(rel) == { j \in 1..Len(stats.errors) : stats.errors[j][1] = rel }

RECURSIVE SumSizes(_)
SumSizes(l) == IF l = <<>> THEN 0 ELSE SizeOf(Head(l).src) + SumSizes(Tail(l))

CopiedPaths == { <<tree.name>> \o r : r \in output.copied }

DiscoveredPaths == UNION { Range(found.mods[key]) : key \in DOMAIN found.mods }

FlatDotScript(t) ==
    UNION { { ChildScriptsPath(t, n) \o e.path :
                e \in { x \in ItemOf(t, n).scripts.entries :
                           Suffix(x.path[Len(x.path)]) = "script" } } :
            n \in { x \in ItemNames(t) : ItemOf(t, x).isDir } }

\* the paths of a discovered mod of the flat layout, <mod>/gamedata/scripts/...
InFlatLayout(q) == Len(q) > 4 /\ q[3] = "gamedata" /\ q[4] = "scripts"

ModNames == { modsDir[i].name : i \in { j \in 1..Len(modsDir) : IsMod(modsDir[j]) } }

IsNameSortedModList(l) ==
    /\ { l[i].name : i \in 1..Len(l) } = ModNames
    /\ \A i \in 1..(Len(l) - 1) : l[i].name < l[i + 1].name

RECURSIVE DigitsValue(_)
\* the number a sequence of decimal digits reads as
DigitsValue(d) ==
    IF d = <<>> THEN 0 ELSE 10 * DigitsValue(SubSeq(d, 1, Len(d) - 1)) + d[Len(d)]

\* ceil(n / c), counted: the least k with k * c >= n
CeilDiv(n, c) == CHOOSE k \in 0..n : k * c >= n /\ (k = 0 \/ (k - 1) * c < n)

\* the archive with number i holds the mods at positions (i-1)*c .. min(i*c, n)-1
\* (counted from 0) of the list
HoldsSlice(name, i) ==
    LET n  == Len(splitMods)
        c  == args.chunks
        lo == (i - 1) * c + 1
        hi == Min(i * c, n)
    IN  /\ name \in DOMAIN archives
        /\ DigitsValue(name) = i
        /\ archives[name].mods = [j \in 1..(hi - lo + 1) |-> splitMods[lo + j - 1].name]
        /\ Len(archives[name].mods) >= 1
        /\ Len(archives[name].mods) <= c
        /\ i < CeilDiv(n, c) => Len(archives[name].mods) = c

SplitDone == splitPc = "done"

PaddedToTwo(name) ==
    /\ Len(name) >= 2
    /\ \A j \in 1..Len(name) : name[j] \in 0..9
    /\ Len(name) > 2 => name[1] # 0

C9_ListCreatesNothing ==
    args.list =>
        /\ ~outputDirMade
        /\ archives = EmptyMap
        /\ splitPc \in {"start", "exit"}
        /\ (splitPc = "exit" /\ splitMods # <<>>) => exitCode = 0
        /\ (splitPc = "exit" /\ splitMods = <<>>) => exitCode = 1

\* a run with --list that found mods and has exited
C9_Witness ==
    /\ args.list
    /\ splitPc = "exit"
    /\ exitCode = 0
    /\ Len(splitMods) >= 2
    /\ Len(splitMods) < Len(modsDir)

====
